---- MODULE Spec2Model ----
(***************************************************************************)
(* BeReal Time sensor (src/sensor.py): one BeRealSensor instance, the      *)
(* event-loop timers it arms with async_call_later, the async_update       *)
(* coroutines suspended on the HTTP fetch, and the host's lifecycle calls. *)
(*                                                                         *)
(* Time is counted in ticks; the epoch-millisecond values of the source    *)
(* are tick counts here.  A local day has TicksPerDay ticks and the        *)
(* process's local timezone is TzOffset ticks ahead of UTC.                *)
(***************************************************************************)
EXTENDS Integers, Sequences, FiniteSets, TLC

\* ---------------------------------------------------------------- bounds
MaxTime == 4
TicksPerDay == 4
TzOffset == 2
MaxTimers == 3

\* ------------------------------------------------------ program constants
SHORT_INTERVAL == 5
LONG_INTERVAL == 2 * 3600
NoTimer == 0

\* ------------------------------------------------------- Python values
\* Every value carries the same three fields, so any two can be compared.
V(tag, n, s) == [tag |-> tag, n |-> n, s |-> s]
\* the key is not in the dict
NoKey == V("nokey", 0, "")
None == V("None", 0, "")
PyInt(n) == V("int", n, "")
PyStr(s) == V("str", 0, s)
\* an ISO-8601 date-time string naming the instant t, with UTC designator sfx
IsoStr(t, sfx) == V("iso", t, sfx)
\* a string that is no ISO-8601 date, time or date-time
BadStr == V("badstr", 0, "")
\* "YYYY-MM-DD" of local day d, "HH:MM" of tick h of the day
DateStr(d) == V("date", d, "")
TimeStr(h) == V("time", h, "")

Keys == {"startDate", "endDate", "localDate", "localTime", "localDateTime",
         "instance", "error", "current_time_utc"}
EmptyDict == [k \in Keys |-> NoKey]
\* dict.get(key): None when the key is missing
Get(d, k) == IF d[k] = NoKey THEN None ELSE d[k]

\* ------------------------------------------------- local time of the host
\* datetime.fromtimestamp(ms / 1000).astimezone().date()
LocalDate(ms) == (ms + TzOffset) \div TicksPerDay
\* time of day of now_local
LocalTimeOfDay(ms) == (ms + TzOffset) % TicksPerDay
\* now_local.replace(hour=6, minute=0, second=0, microsecond=0), as a time of day
SixAm == (6 * TicksPerDay) \div 24

\* ------------------------------------------------------- _parse_bereal_data
\* int(datetime.fromisoformat(v.replace("Z", "+00:00")).timestamp() * 1000):
\* a value without .replace raises AttributeError, a string that is no
\* ISO-8601 date-time raises ValueError, a naive date-time is local time.
IsoToMillis(v) ==
    IF v.tag \notin {"iso", "badstr", "date", "time", "str"}
    THEN [exc |-> "AttributeError", ms |-> 0]
    ELSE IF v.tag # "iso"
    THEN [exc |-> "ValueError", ms |-> 0]
    ELSE IF v.s \in {"Z", "+00:00"}
    THEN [exc |-> "", ms |-> v.n]
    ELSE [exc |-> "", ms |-> v.n - TzOffset]

\* fromisoformat(f"{localDate}T{localTime}:00").timestamp() * 1000: any value
\* formats into the string, and only a date and a time make it ISO-8601
LocalToMillis(d, t) ==
    IF d.tag = "date" /\ t.tag = "time"
    THEN [exc |-> "", ms |-> d.n * TicksPerDay + t.n - TzOffset]
    ELSE [exc |-> "ValueError", ms |-> 0]

\* the resolution with the window tested before the local-day comparison
ResolveInstanceWindowFirst(start, end, local_timestamp, current_utc) ==
    LET current_local_date == LocalDate(current_utc)
        bereal_local_date == LocalDate(local_timestamp)
        first == IF start <= current_utc /\ current_utc <= end THEN PyStr("now")
                 ELSE IF current_local_date > bereal_local_date THEN PyStr("waiting")
                 ELSE IF current_utc < start THEN PyStr("waiting")
                 ELSE IF current_utc > end THEN PyStr("past")
                 ELSE None
    IN IF LocalTimeOfDay(current_utc) >= SixAm
          /\ current_local_date > bereal_local_date
       THEN PyStr("waiting")
       ELSE first

\* the resolution with the window comparison reversed
ResolveInstanceReversedWindow(start, end, local_timestamp, current_utc) ==
    LET current_local_date == LocalDate(current_utc)
        bereal_local_date == LocalDate(local_timestamp)
        first == IF current_local_date > bereal_local_date THEN PyStr("waiting")
                 ELSE IF start >= current_utc /\ current_utc >= end THEN PyStr("now")
                 ELSE IF current_utc < start THEN PyStr("waiting")
                 ELSE IF current_utc > end THEN PyStr("past")
                 ELSE None
    IN IF LocalTimeOfDay(current_utc) >= SixAm
          /\ current_local_date > bereal_local_date
       THEN PyStr("waiting")
       ELSE first

\* the resolution with the 06:00 override applied whatever the local day
ResolveInstanceSixAmAlways(start, end, local_timestamp, current_utc) ==
    LET current_local_date == LocalDate(current_utc)
        bereal_local_date == LocalDate(local_timestamp)
        first == IF current_local_date > bereal_local_date THEN PyStr("waiting")
                 ELSE IF start <= current_utc /\ current_utc <= end THEN PyStr("now")
                 ELSE IF current_utc < start THEN PyStr("waiting")
                 ELSE IF current_utc > end THEN PyStr("past")
                 ELSE None
    IN IF LocalTimeOfDay(current_utc) >= SixAm
       THEN PyStr("waiting")
       ELSE first

\* variant: the override compares the dates with >=
ResolveInstanceSixAmSameDay(start, end, local_timestamp, current_utc) ==
    LET current_local_date == LocalDate(current_utc)
        bereal_local_date == LocalDate(local_timestamp)
        first == IF current_local_date > bereal_local_date THEN PyStr("waiting")
                 ELSE IF start <= current_utc /\ current_utc <= end THEN PyStr("now")
                 ELSE IF current_utc < start THEN PyStr("waiting")
                 ELSE IF current_utc > end THEN PyStr("past")
                 ELSE None
    IN IF LocalTimeOfDay(current_utc) >= SixAm
          /\ current_local_date >= bereal_local_date
       THEN PyStr("waiting")
       ELSE first

\* variant: the chain lacks the branch for an instant before the start
ResolveInstanceNoEarlyBranch(start, end, local_timestamp, current_utc) ==
    LET current_local_date == LocalDate(current_utc)
        bereal_local_date == LocalDate(local_timestamp)
        first == IF current_local_date > bereal_local_date THEN PyStr("waiting")
                 ELSE IF start <= current_utc /\ current_utc <= end THEN PyStr("now")
                 ELSE IF current_utc > end THEN PyStr("past")
                 ELSE None
    IN IF LocalTimeOfDay(current_utc) >= SixAm
          /\ current_local_date > bereal_local_date
       THEN PyStr("waiting")
       ELSE first

ResolveInstance(start, end, local_timestamp, current_utc) ==
    LET current_local_date == LocalDate(current_utc)
        bereal_local_date == LocalDate(local_timestamp)
        first == IF current_local_date > bereal_local_date THEN PyStr("waiting")
                 ELSE IF start <= current_utc /\ current_utc <= end THEN PyStr("now")
                 ELSE IF current_utc < start THEN PyStr("waiting")
                 ELSE IF current_utc > end THEN PyStr("past")
                 ELSE None
    IN IF LocalTimeOfDay(current_utc) >= SixAm
          /\ current_local_date > bereal_local_date
       THEN PyStr("waiting")
       ELSE first

\* [exc, result]: exc is "" when the call returns result, else the exception
\* that leaves the call
ParseBerealData(data, current_utc) ==
    LET s == IF data.startDate = NoKey THEN [exc |-> "", ms |-> 0]
             ELSE IsoToMillis(data.startDate)
        r1 == IF data.startDate = NoKey \/ s.exc # "" THEN data
              ELSE [data EXCEPT !.startDate = PyInt(s.ms)]
        e == IF r1.endDate = NoKey THEN [exc |-> "", ms |-> 0]
             ELSE IsoToMillis(r1.endDate)
        r2 == IF r1.endDate = NoKey \/ e.exc # "" THEN r1
              ELSE [r1 EXCEPT !.endDate = PyInt(e.ms)]
        hasLocal == r2.localDate # NoKey /\ r2.localTime # NoKey
        l == IF hasLocal THEN LocalToMillis(r2.localDate, r2.localTime)
             ELSE [exc |-> "", ms |-> 0]
        r3 == IF hasLocal /\ l.exc = "" THEN [r2 EXCEPT !.localDateTime = PyInt(l.ms)]
              ELSE r2
        r4 == [r3 EXCEPT !.current_time_utc = PyInt(current_utc)]
        start == Get(r4, "startDate")
        end == Get(r4, "endDate")
        local_timestamp == Get(r4, "localDateTime")
        complete == start # None /\ end # None /\ local_timestamp # None
    IN  IF s.exc = "AttributeError" THEN [exc |-> s.exc, result |-> data]
        ELSE IF s.exc = "ValueError"
        THEN [exc |-> "", result |-> [data EXCEPT !.error = PyStr("Date parse error")]]
        ELSE IF e.exc = "AttributeError" THEN [exc |-> e.exc, result |-> r1]
        ELSE IF e.exc = "ValueError"
        THEN [exc |-> "", result |-> [r1 EXCEPT !.error = PyStr("Date parse error")]]
        ELSE IF l.exc = "ValueError"
        THEN [exc |-> "", result |-> [r2 EXCEPT !.error = PyStr("Date parse error")]]
        ELSE IF complete /\ local_timestamp.tag # "int"
        THEN [exc |-> "TypeError", result |-> r4]
        ELSE [exc |-> "",
              result |-> [r4 EXCEPT !.instance =
                             IF complete
                             THEN ResolveInstance(start.n, end.n, local_timestamp.n,
                                                  current_utc)
                             ELSE None]]

\* variant: result is the payload itself, not a copy of it
DataAfterParseNoCopy(data, current_utc) == ParseBerealData(data, current_utc).result

\* the payload as the caller holds it once _parse_bereal_data has returned:
\* the function writes to result, a copy, and never to data
DataAfterParse(data, current_utc) == data

\* --------------------------------------------------- what the endpoint sends
WindowTimes == {1, MaxTime - 1}
Payload(s, e, ld, lt, ldt, ri) ==
    [EmptyDict EXCEPT !.startDate = s, !.endDate = e, !.localDate = ld,
                      !.localTime = lt, !.localDateTime = ldt, !.instance = ri]
StartDates == {NoKey, BadStr, PyInt(1), IsoStr(1, "Z"), IsoStr(MaxTime - 1, "+00:00")}
EndDates == {NoKey, BadStr} \cup {IsoStr(t, "Z") : t \in WindowTimes}
LocalDates == {NoKey, BadStr, DateStr(0), DateStr(1)}
LocalTimes == {NoKey, TimeStr(1)}
\* keys of the parsed record that a payload may carry itself
RawLocalDateTimes == {NoKey, PyInt(0)}
RawInstances == {NoKey, PyStr("past"), PyStr("soon")}
\* the JSON objects resp.json() may return
Payloads ==
    {Payload(s, e, ld, lt, ldt, ri) :
        s \in StartDates, e \in EndDates, ld \in LocalDates, lt \in LocalTimes,
        ldt \in RawLocalDateTimes, ri \in RawInstances}
\* the payloads of the lifecycle runs: a well-formed one, and one each with a
\* field missing, malformed (without and with an "instance" key of its own)
\* and of the wrong type
BasePayload ==
    Payload(IsoStr(1, "Z"), IsoStr(MaxTime - 1, "Z"), DateStr(1), TimeStr(1), NoKey, NoKey)
LifecyclePayloads ==
    {BasePayload,
     [BasePayload EXCEPT !.localDate = NoKey],
     [BasePayload EXCEPT !.startDate = BadStr],
     [BasePayload EXCEPT !.startDate = BadStr, !.instance = PyStr("past")],
     [BasePayload EXCEPT !.startDate = BadStr, !.instance = PyStr("soon")],
     [BasePayload EXCEPT !.startDate = PyInt(1)]}
\* the exceptions the fetch raises: aiohttp.ClientError (connection, HTTP status,
\* content type), TimeoutError, json.JSONDecodeError
FetchErrors == {"ClientError", "TimeoutError", "JSONDecodeError"}

\* ------------------------------------------------------------------- state
VARIABLES
    phase,                        \* where the host is in the entity's lifecycle
    timers,                       \* the event loop's timers, by handle
    inflight,                     \* async_update calls suspended on the fetch
    now,                          \* the current instant, UTC
    unsub_timer,                  \* self._unsub_timer
    current_interval,             \* self._current_interval, in seconds
    attr_native_value,            \* self._attr_native_value
    attr_extra_state_attributes,  \* self._attr_extra_state_attributes
    outcome,                      \* how the async_update that ended last ended
    self,                         \* the sensor the variables above belong to
    other                         \* the same fields of the second sensor

vars == <<phase, timers, inflight, now, unsub_timer, current_interval,
          attr_native_value, attr_extra_state_attributes, outcome, self, other>>

\* {} : no key is set
NoAttributes ==
    [api_parsed |-> EmptyDict, api_raw |-> [kind |-> "unset", data |-> EmptyDict, err |-> ""],
     current_time_utc |-> NoKey, current_scan_interval |-> NoKey]

\* a sensor as __init__ leaves it; own: the timers it has armed
NewSensor ==
    [phase |-> "new", inflight |-> {}, unsub_timer |-> NoTimer,
     current_interval |-> SHORT_INTERVAL, attr_native_value |-> None,
     attr_extra_state_attributes |-> NoAttributes, outcome |-> "none",
     own |-> {}]

\* the timers whose callback _run holds the sensor named by self
Own == DOMAIN timers \ other.own

Init ==
    /\ self = 1
    /\ other = NewSensor
    /\ phase = "new"
    /\ timers = <<>>
    /\ inflight = {}
    /\ now = 0
    /\ unsub_timer = NoTimer
    /\ current_interval = SHORT_INTERVAL
    /\ attr_native_value = None
    /\ attr_extra_state_attributes = NoAttributes
    /\ outcome = "none"

Armed == {i \in DOMAIN timers : timers[i].state = "armed"}

\* a cancellation that reaches every armed timer of the loop
UnsubEveryTimer(ts, h) ==
    IF h # NoTimer /\ ts[h].state = "armed"
    THEN [i \in DOMAIN ts |->
             IF ts[i].state = "armed" THEN [ts[i] EXCEPT !.state = "cancelled"]
             ELSE ts[i]]
    ELSE ts

\* the callable async_call_later returned: cancels the timer unless it has fired
Unsub(ts, h) ==
    IF h # NoTimer /\ ts[h].state = "armed"
    THEN [ts EXCEPT ![h].state = "cancelled"]
    ELSE ts

\* _schedule_next_update without its cancellation of the armed timer
ScheduleNextUpdateNoCancel(interval) ==
    /\ Len(timers) < MaxTimers
    /\ timers' = Append(timers, [state |-> "armed", delay |-> interval])
    /\ unsub_timer' = Len(timers) + 1
    /\ current_interval' = interval

ScheduleNextUpdate(interval) ==
    /\ Len(timers) < MaxTimers
    /\ timers' = Append(Unsub(timers, unsub_timer),
                        [state |-> "armed", delay |-> interval])
    /\ unsub_timer' = Len(timers) + 1
    /\ current_interval' = interval

\* the choice of interval with the long one for "waiting" too
NextIntervalWaitingLong(instance) ==
    IF instance = PyStr("now") THEN SHORT_INTERVAL
    ELSE IF instance = PyStr("waiting") THEN LONG_INTERVAL
    ELSE IF instance = PyStr("past") THEN LONG_INTERVAL
    ELSE SHORT_INTERVAL

\* the interval async_update chooses for an instance
NextInterval(instance) ==
    IF instance = PyStr("now") THEN SHORT_INTERVAL
    ELSE IF instance = PyStr("waiting") THEN SHORT_INTERVAL
    ELSE IF instance = PyStr("past") THEN LONG_INTERVAL
    ELSE SHORT_INTERVAL

\* the error attributes without the exception's text
ErrorAttributesNoMessage(err) ==
    [api_raw |-> [kind |-> "error", data |-> EmptyDict, err |-> ""],
     api_parsed |-> EmptyDict,
     current_time_utc |-> None,
     current_scan_interval |-> PyInt(SHORT_INTERVAL)]

\* the error attributes with the parsed record of the cycle before
ErrorAttributesKeepParsed(err) ==
    [api_raw |-> [kind |-> "error", data |-> EmptyDict, err |-> err],
     api_parsed |-> attr_extra_state_attributes.api_parsed,
     current_time_utc |-> None,
     current_scan_interval |-> PyInt(SHORT_INTERVAL)]

\* the attributes async_update writes when the fetch raised err
ErrorAttributes(err) ==
    [api_raw |-> [kind |-> "error", data |-> EmptyDict, err |-> err],
     api_parsed |-> EmptyDict,
     current_time_utc |-> None,
     current_scan_interval |-> PyInt(SHORT_INTERVAL)]

\* the caller of an async_update that ends: the host awaits the one it started
Returned(c) == IF c = NoTimer THEN "updated" ELSE phase

\* async_add_entities([sensor], True): the host calls async_update and awaits it
SetupInitialUpdate ==
    /\ phase = "new"
    /\ phase' = "updating"
    /\ inflight' = inflight \cup {NoTimer}
    /\ UNCHANGED <<timers, now, unsub_timer, current_interval, attr_native_value,
                   attr_extra_state_attributes, outcome, self, other>>

\* async_added_to_hass arming the short interval whatever the last cycle chose
AsyncAddedToHassShortInterval ==
    /\ phase = "updated"
    /\ phase' = "added"
    /\ ScheduleNextUpdate(SHORT_INTERVAL)
    /\ UNCHANGED <<inflight, now, attr_native_value, attr_extra_state_attributes,
                   outcome, self, other>>

AsyncAddedToHass ==
    /\ phase = "updated"
    /\ phase' = "added"
    /\ ScheduleNextUpdate(current_interval)
    /\ UNCHANGED <<inflight, now, attr_native_value, attr_extra_state_attributes,
                   outcome, self, other>>

AsyncWillRemoveFromHass ==
    /\ phase = "added"
    /\ phase' = "removed"
    /\ timers' = Unsub(timers, unsub_timer)
    /\ unsub_timer' = NoTimer
    /\ UNCHANGED <<inflight, now, current_interval, attr_native_value,
                   attr_extra_state_attributes, outcome, self, other>>

\* the timer fires: _run creates the task, which runs up to the fetch
TimerFires(h) ==
    /\ h \in Own
    /\ timers[h].state = "armed"
    /\ timers' = [timers EXCEPT ![h].state = "fired"]
    /\ inflight' = inflight \cup {h}
    /\ UNCHANGED <<phase, now, unsub_timer, current_interval, attr_native_value,
                   attr_extra_state_attributes, outcome, self, other>>

\* async_update from the response to its end, the payload parsed without raising
UpdateReturns(c, data) ==
    LET p == ParseBerealData(data, now)
        instance == Get(p.result, "instance")
        next_interval == NextInterval(instance)
    IN  /\ c \in inflight
        /\ p.exc = ""
        /\ attr_native_value' = instance
        /\ attr_extra_state_attributes' =
              [api_parsed |-> p.result,
               api_raw |-> [kind |-> "json", data |-> DataAfterParse(data, now),
                           err |-> ""],
               current_time_utc |-> Get(p.result, "current_time_utc"),
               current_scan_interval |-> PyInt(next_interval)]
        /\ ScheduleNextUpdate(next_interval)
        /\ inflight' = inflight \ {c}
        /\ phase' = Returned(c)
        /\ outcome' = "returned"
        /\ UNCHANGED <<now, self, other>>

\* async_update when the fetch raises one of the exceptions it catches
UpdateFails(c, err) ==
    /\ c \in inflight
    /\ attr_native_value' = PyStr("error")
    /\ attr_extra_state_attributes' = ErrorAttributes(err)
    /\ ScheduleNextUpdate(SHORT_INTERVAL)
    /\ inflight' = inflight \ {c}
    /\ phase' = Returned(c)
    /\ outcome' = "failed"
    /\ UNCHANGED <<now, self, other>>

\* async_update when _parse_bereal_data raises what neither function catches:
\* the exception leaves async_update before anything is written or scheduled
UpdateRaises(c, data) ==
    /\ c \in inflight
    /\ ParseBerealData(data, now).exc # ""
    /\ inflight' = inflight \ {c}
    /\ phase' = Returned(c)
    /\ outcome' = "raised"
    /\ UNCHANGED <<timers, now, unsub_timer, current_interval, attr_native_value,
                   attr_extra_state_attributes,
                   self, other>>

Tick ==
    /\ now < MaxTime
    /\ now' = now + 1
    /\ UNCHANGED <<phase, timers, inflight, unsub_timer, current_interval,
                   attr_native_value, attr_extra_state_attributes, outcome, self, other>>

Next ==
    \/ SetupInitialUpdate
    \/ AsyncAddedToHass
    \/ AsyncWillRemoveFromHass
    \/ \E h \in DOMAIN timers : TimerFires(h)
    \/ \E c \in inflight, data \in LifecyclePayloads : UpdateReturns(c, data)
    \/ \E c \in inflight, err \in FetchErrors : UpdateFails(c, err)
    \/ \E c \in inflight, data \in LifecyclePayloads : UpdateRaises(c, data)
    \/ Tick

\* the sensor's life from construction on
Spec == Init /\ [][Next]_vars

\* One async_update, the host's first, over every payload and instant.
CycleInit ==
    /\ self = 1
    /\ other = NewSensor
    /\ phase = "updating"
    /\ timers = <<>>
    /\ inflight = {NoTimer}
    /\ now \in 0..MaxTime
    /\ unsub_timer = NoTimer
    /\ current_interval = SHORT_INTERVAL
    /\ attr_native_value = None
    /\ attr_extra_state_attributes = NoAttributes
    /\ outcome = "none"

CycleNext ==
    \/ \E data \in Payloads : UpdateReturns(NoTimer, data)
    \/ \E err \in FetchErrors : UpdateFails(NoTimer, err)
    \/ \E data \in Payloads : UpdateRaises(NoTimer, data)

CycleSpec == CycleInit /\ [][CycleNext]_vars

\* Two sensors, one per config entry, on the one event loop.  The methods act
\* on the sensor named by self; the loop turns to the second sensor by
\* exchanging the two sets of fields.
Switch ==
    /\ self' = 3 - self
    /\ other' = [phase |-> phase, inflight |-> inflight,
                 unsub_timer |-> unsub_timer,
                 current_interval |-> current_interval,
                 attr_native_value |-> attr_native_value,
                 attr_extra_state_attributes |-> attr_extra_state_attributes,
                 outcome |-> outcome, own |-> Own]
    /\ phase' = other.phase
    /\ inflight' = other.inflight
    /\ unsub_timer' = other.unsub_timer
    /\ current_interval' = other.current_interval
    /\ attr_native_value' = other.attr_native_value
    /\ attr_extra_state_attributes' = other.attr_extra_state_attributes
    /\ outcome' = other.outcome
    /\ UNCHANGED <<timers, now>>

\* an instant inside the window and one after its end
PairTimes == {1, MaxTime}
PairPayloads ==
    {BasePayload,
     [BasePayload EXCEPT !.startDate = PyInt(1)]}

PairInit ==
    /\ self = 1
    /\ other = NewSensor
    /\ phase = "new"
    /\ timers = <<>>
    /\ inflight = {}
    /\ now \in PairTimes
    /\ unsub_timer = NoTimer
    /\ current_interval = SHORT_INTERVAL
    /\ attr_native_value = None
    /\ attr_extra_state_attributes = NoAttributes
    /\ outcome = "none"

PairNext ==
    \/ Switch
    \/ SetupInitialUpdate
    \/ AsyncAddedToHass
    \/ AsyncWillRemoveFromHass
    \/ \E h \in DOMAIN timers : TimerFires(h)
    \/ \E c \in inflight, data \in PairPayloads : UpdateReturns(c, data)
    \/ \E c \in inflight : UpdateFails(c, "ClientError")
    \/ \E c \in inflight, data \in PairPayloads : UpdateRaises(c, data)

PairSpec == PairInit /\ [][PairNext]_vars

\* ------------------------------------------------------------ properties
\* an async_update ends in this step
CycleEnds == inflight' # inflight /\ inflight' \subseteq inflight
\* the step arms a new timer with this delay and keeps its handle
Rearmed(delay) ==
    /\ Len(timers') = Len(timers) + 1
    /\ unsub_timer' = Len(timers')
    /\ timers'[unsub_timer'] = [state |-> "armed", delay |-> delay]
Parsed == attr_extra_state_attributes.api_parsed
Raw == attr_extra_state_attributes.api_raw

\* C1: at most one timer is armed at any time, and the only timer that ever
\* fires is the one _unsub_timer holds: a timer that was replaced (or
\* cancelled) never fires afterwards.
C1_SingleTimer ==
    /\ [](Cardinality(Armed) <= 1)
    /\ [][\A h \in DOMAIN timers :
             (timers[h].state # "fired" /\ timers'[h].state = "fired")
                => (h = unsub_timer /\ timers[h].state = "armed")]_vars

\* a timer was replaced: it is cancelled and its successor is armed
C1_Witness ==
    \E h \in DOMAIN timers :
        /\ timers[h].state = "cancelled"
        /\ unsub_timer > h
        /\ timers[unsub_timer].state = "armed"

\* C2: the delay armed at the end of a cycle is the long interval exactly
\* when the cycle's instance is "past", and the short interval for every
\* other instance and for every failure of the fetch.
C2_DelayFollowsInstance ==
    [][(CycleEnds /\ outcome' # "raised") =>
          /\ Rearmed(IF attr_native_value' = PyStr("past")
                     THEN LONG_INTERVAL ELSE SHORT_INTERVAL)
          /\ (outcome' = "failed" => Rearmed(SHORT_INTERVAL))
          /\ attr_native_value' \in {PyStr("now"), PyStr("waiting"), None, PyStr("error")}
                => Rearmed(SHORT_INTERVAL)]_vars

\* a cycle resolved "past" and the long interval is armed
C2_Witness ==
    /\ outcome = "returned"
    /\ attr_native_value = PyStr("past")
    /\ Parsed.error = NoKey
    /\ unsub_timer # NoTimer
    /\ timers[unsub_timer] = [state |-> "armed", delay |-> LONG_INTERVAL]

\* C3: no outcome of a cycle leaves the sensor without a pending timer and
\* without a cycle in flight: while the entity is added, polling goes on.
C3_PollingNeverStops ==
    (phase = "added" /\ inflight = {}) => Armed # {}

\* C4: once async_will_remove_from_hass has run, no timer is armed and no
\* async_update starts.
C4_NothingAfterRemove ==
    /\ [](phase = "removed" => Armed = {})
    /\ [][phase = "removed" => inflight' \subseteq inflight]_vars

\* C5: at most one async_update is in flight at any time.
C5_OneCycleInFlight == Cardinality(inflight) <= 1

\* the cycle that ends in this step is one whose payload held a malformed date
DateParseErrorCycle == CycleEnds /\ outcome' = "returned" /\ Parsed'.error # NoKey

Normalized == outcome = "returned" /\ Raw.kind = "json" /\ Parsed.error = NoKey
\* the record holds startMillis, endMillis and localAnchorMillis
Complete ==
    /\ Normalized
    /\ Parsed.startDate.tag = "int"
    /\ Parsed.endDate.tag = "int"
    /\ Parsed.localDateTime.tag = "int"
startMillis == Parsed.startDate.n
endMillis == Parsed.endDate.n
currentUtcMillis == Parsed.current_time_utc.n
\* the current local date is after the anchor's local date
RolledOver == LocalDate(currentUtcMillis) > LocalDate(Parsed.localDateTime.n)
\* the payload holds all four fields, each a well-formed string
WellFormed ==
    /\ Normalized
    /\ Raw.data.startDate.tag = "iso"
    /\ Raw.data.endDate.tag = "iso"
    /\ Raw.data.localDate.tag = "date"
    /\ Raw.data.localTime.tag = "time"

\* the first-match-wins policy of the four rules
Policy ==
    IF RolledOver THEN PyStr("waiting")
    ELSE IF startMillis <= currentUtcMillis /\ currentUtcMillis <= endMillis
    THEN PyStr("now")
    ELSE IF currentUtcMillis < startMillis THEN PyStr("waiting")
    ELSE IF currentUtcMillis > endMillis THEN PyStr("past")
    ELSE None

\* C7: for a record with startMillis, endMillis and localAnchorMillis the
\* instance, which is also the reported value, is the one the four-rule
\* first-match-wins policy gives.
C7_FirstMatchPolicy ==
    Complete => (Parsed.instance = Policy /\ attr_native_value = Policy)

\* the local day has rolled over inside the window: rule 1 wins over rule 2
C7_Witness ==
    /\ Complete
    /\ RolledOver
    /\ startMillis <= currentUtcMillis /\ currentUtcMillis <= endMillis
    /\ attr_native_value = PyStr("waiting")

\* C8: a payload that lacks localDate or localTime, or startDate or endDate,
\* resolves to no instance, whatever other keys it carries.  Stated of the
\* payloads whose dates all parse.
C8_MissingFieldAbsent ==
    (/\ Normalized
     /\ \/ Raw.data.localDate = NoKey
        \/ Raw.data.localTime = NoKey
        \/ Raw.data.startDate = NoKey
        \/ Raw.data.endDate = NoKey)
    => (attr_native_value = None /\ Parsed.instance = None)

\* C9 as stated: a well-formed payload with start <= end and the current
\* instant strictly between them resolves to "now".
C9_StrictlyInsideIsNow ==
    (/\ WellFormed
     /\ startMillis <= endMillis
     /\ startMillis < currentUtcMillis /\ currentUtcMillis < endMillis)
    => attr_native_value = PyStr("now")

\* C9, amended: ... and the current local date not after the anchor's local
\* date ...
C9_StrictlyInsideSameDayIsNow ==
    (/\ WellFormed
     /\ startMillis <= endMillis
     /\ startMillis < currentUtcMillis /\ currentUtcMillis < endMillis
     /\ ~RolledOver)
    => attr_native_value = PyStr("now")

C9_Witness ==
    /\ WellFormed
    /\ startMillis < currentUtcMillis /\ currentUtcMillis < endMillis
    /\ ~RolledOver
    /\ attr_native_value = PyStr("now")

\* C10 as stated: with all three timestamps present, in any order of start
\* and end, an instant after end on a local day that has not rolled over
\* resolves to "past".
C10_AfterEndIsPast ==
    (Complete /\ currentUtcMillis > endMillis /\ ~RolledOver)
    => attr_native_value = PyStr("past")

\* C10, amended: ... an instant after end and not before start ...
C10_AfterEndNotBeforeStartIsPast ==
    (/\ Complete
     /\ currentUtcMillis > endMillis
     /\ currentUtcMillis >= startMillis
     /\ ~RolledOver)
    => attr_native_value = PyStr("past")

\* start after end, the instant after both, the same local day
C10_Witness ==
    /\ Complete
    /\ startMillis > endMillis
    /\ currentUtcMillis >= startMillis
    /\ ~RolledOver
    /\ attr_native_value = PyStr("past")

\* the timer the last cycle armed
ArmedDelay == timers[unsub_timer].delay
\* the last cycle's payload held a malformed date
DateParseError == outcome = "returned" /\ Raw.kind = "json" /\ Parsed.error # NoKey

\* C11: a malformed date leaves a record with the parse error, no instance
\* and no current instant; the cycle reports no value and arms the short
\* interval.
C11_FailFastReportsAbsent ==
    DateParseError =>
        /\ Parsed.error = PyStr("Date parse error")
        /\ Parsed.instance = NoKey
        /\ Parsed.current_time_utc = NoKey
        /\ attr_native_value = None
        /\ unsub_timer # NoTimer
        /\ ArmedDelay = SHORT_INTERVAL

\* C12: after a cycle the reported value is one of "now", "waiting", "past",
\* None and "error".
C12_ValueInRange ==
    attr_native_value \in
        {PyStr("now"), PyStr("waiting"), PyStr("past"), None, PyStr("error")}

\* the current local time of day is at or past the 06:00 cutoff
PastSixAm == LocalTimeOfDay(currentUtcMillis) >= SixAm

\* C13: the 06:00 override changes no outcome: at or past the cutoff the
\* instance of a record with the three timestamps is still the one the four
\* rules give, whether or not the local day has rolled over.
C13_OverrideChangesNothing ==
    (Complete /\ PastSixAm) => Parsed.instance = Policy

\* the override's condition holds and the instance is the "waiting" rule 1 gives
C13_Witness ==
    /\ Complete
    /\ PastSixAm
    /\ RolledOver
    /\ Parsed.instance = PyStr("waiting")

\* the same day past the cutoff: the override does not apply and rule 2 decides
C13_SameDayWitness ==
    /\ Complete
    /\ PastSixAm
    /\ ~RolledOver
    /\ Parsed.instance = PyStr("now")

\* C14: a record with startMillis, endMillis and localAnchorMillis always gets
\* an instance among "now", "waiting" and "past", never None, for every
\* ordering of start, end and the current instant.
C14_ResolverTotal ==
    Complete =>
        /\ Parsed.instance \in {PyStr("now"), PyStr("waiting"), PyStr("past")}
        /\ attr_native_value = Parsed.instance

\* a window that ends before it starts, the instant between the two
C14_Witness ==
    /\ Complete
    /\ ~RolledOver
    /\ endMillis < currentUtcMillis /\ currentUtcMillis < startMillis
    /\ Parsed.instance = PyStr("waiting")

\* the interval the attributes show
ShownInterval == attr_extra_state_attributes.current_scan_interval

\* C15: once a cycle has run to its end the current_scan_interval attribute
\* is _current_interval in seconds and the delay of the timer _unsub_timer
\* holds; async_added_to_hass arms a timer with that same delay and leaves
\* _current_interval as the cycle set it.
C15_IntervalShownIsArmed ==
    /\ [](ShownInterval # NoKey =>
            /\ ShownInterval = PyInt(current_interval)
            /\ unsub_timer # NoTimer => ArmedDelay = current_interval)
    /\ [][(phase = "updated" /\ phase' = "added") =>
            /\ Rearmed(current_interval)
            /\ current_interval' = current_interval
            /\ ShownInterval' = ShownInterval]_vars

\* the first cycle chose the long interval and async_added_to_hass replaced
\* its timer by another one with the long delay
C15_Witness ==
    /\ phase = "added"
    /\ attr_native_value = PyStr("past")
    /\ ShownInterval = PyInt(LONG_INTERVAL)
    /\ timers = <<[state |-> "cancelled", delay |-> LONG_INTERVAL],
                  [state |-> "armed", delay |-> LONG_INTERVAL]>>
    /\ unsub_timer = 2

Sensor(i) ==
    IF i = self
    THEN [phase |-> phase, inflight |-> inflight, unsub_timer |-> unsub_timer,
          current_interval |-> current_interval,
          attr_native_value |-> attr_native_value,
          attr_extra_state_attributes |-> attr_extra_state_attributes,
          outcome |-> outcome, own |-> Own]
    ELSE other
\* what a sensor reports and the delay it polls with
Reported(s) ==
    <<s.attr_native_value, s.attr_extra_state_attributes, s.current_interval>>
\* the last cycle of the sensor ran to its end
Completed(s) == s.outcome \in {"returned", "failed"}
\* what the last fetch of the sensor gave: the payload, or the failure
Fetched(s) == s.attr_extra_state_attributes.api_raw

\* C16: what a sensor reports after a cycle that ran to its end depends only
\* on what the fetch gave and on the instant: two sensors whose last cycles
\* got the same payload, or the same failure, at the same instant report the
\* same value, attributes and delay, whatever cycles each ran before.
C16_NoHistory ==
    (/\ Completed(Sensor(1))
     /\ Completed(Sensor(2))
     /\ Sensor(1).outcome = Sensor(2).outcome
     /\ Fetched(Sensor(1)) = Fetched(Sensor(2)))
    => Reported(Sensor(1)) = Reported(Sensor(2))

\* one sensor failed after a cycle that gave "past" and armed the long
\* interval, the second sensor failed in its first cycle
C16_Witness ==
    /\ outcome = "failed" /\ other.outcome = "failed"
    /\ \E h \in Own : timers[h] = [state |-> "fired", delay |-> LONG_INTERVAL]
    /\ other.own = {other.unsub_timer}
    /\ attr_native_value = PyStr("error")
    /\ Parsed = EmptyDict
    /\ current_interval = SHORT_INTERVAL

\* the timers a sensor has armed, as the loop holds them
OwnTimers(i) == [h \in Sensor(i).own |-> timers[h]]
\* a sensor's timer handle, its timers, delay, value and attributes
Fields(i) ==
    <<Sensor(i).unsub_timer, OwnTimers(i), Sensor(i).current_interval,
      Sensor(i).attr_native_value, Sensor(i).attr_extra_state_attributes>>

\* C18: a step of one sensor (arming or cancelling its timer, a cycle, its
\* removal) leaves the timer handle, the timers, the delay, the value and
\* the attributes of the other sensor as they were.
C18_SensorsIndependent ==
    [][\A i \in {1, 2} : (i # self \/ self' # self) => Fields(i)' = Fields(i)]_vars

\* the second sensor has ended a cycle and armed its timer while the first
\* one's value and armed timer stand
C18_Witness ==
    /\ self = 2
    /\ outcome = "returned"
    /\ unsub_timer # NoTimer
    /\ other.attr_native_value = PyStr("past")
    /\ other.unsub_timer # NoTimer
    /\ other.unsub_timer < unsub_timer
    /\ timers[other.unsub_timer] = [state |-> "armed", delay |-> LONG_INTERVAL]
====
